---- MODULE Spec2Model ----
(***************************************************************************)
(* Model of the TSI privileged command dispatch engine:                    *)
(*   lib/BecomeUser.py  initialize, check_membership, get_primary_group,   *)
(*                      get_supplementary_groups, become_user, restore_id  *)
(*   lib/TSI.py         setup_defaults, process_config_value,              *)
(*                      read_config_file, init_functions, handle_function, *)
(*                      process, main                                      *)
(* The process credentials follow the Linux rules for setgid, setgroups,   *)
(* setegid and setresuid: a call is privileged iff the effective UID is 0. *)
(***************************************************************************)
EXTENDS Integers, Sequences, FiniteSets, TLC

\* ------------------------------------------------------------------ bounds
\* longest requested-groups list of a #TSI_IDENTITY line / a become_user call
MaxGroups == 3
\* most '#TSI_<CMD>' tag lines in one message
MaxTags == 2

\* ------------------------------------------------- the OS account database
\* (UserCache: resolves names through the passwd and group databases)
Users == {"alice", "root", "ghost"}
GroupNames == {"users", "devs", "admins", "nogrp"}
Selectors == {"NONE", "DEFAULT_GID"} \cup GroupNames

get_uid_4user(user) ==
    CASE user = "alice" -> 1001
      [] user = "root"  -> 0
      [] OTHER          -> -1

get_gid_4user(user) ==
    CASE user = "alice" -> 100
      [] user = "root"  -> 0
      [] OTHER          -> -1

get_gids_4user(user) ==
    CASE user = "alice" -> <<100, 500>>
      [] user = "root"  -> <<0>>
      [] OTHER          -> <<>>

get_home_4user(user) ==
    CASE user = "alice" -> "/home/alice"
      [] user = "root"  -> "/root"
      [] OTHER          -> ""

get_gid_4group(group) ==
    CASE group = "users"  -> 100
      [] group = "devs"   -> 500
      [] group = "admins" -> 900
      [] OTHER            -> -1

get_members_4group(group) ==
    CASE group = "devs"   -> {"alice"}
      [] group = "admins" -> {"bob"}
      [] OTHER            -> {}

\* ------------------------------------------------------ Python call results
NoExc == [type |-> "none", text |-> "", arg |-> ""]
RuntimeError(text, arg) == [type |-> "RuntimeError", text |-> text, arg |-> arg]
PermissionError(call) == [type |-> "PermissionError", text |-> "Operation not permitted", arg |-> call]
IOError(call) == [type |-> "IOError", text |-> "connector", arg |-> call]
UnboundLocalError(name) == [type |-> "UnboundLocalError", text |-> "referenced before assignment", arg |-> name]
HandlerError == [type |-> "Exception", text |-> "handler", arg |-> ""]
PamError(user) == [type |-> "Exception", text |-> "pam open_session", arg |-> user]

Return(v) == [raised |-> FALSE, val |-> v, exc |-> NoExc]
Raise(e) == [raised |-> TRUE, val |-> <<>>, exc |-> e]

ToSet(s) == {s[i] : i \in 1..Len(s)}

\* --------------------------------------------------------------- the kernel
\* credentials: real/effective/saved UID and GID, supplementary groups
Privileged(c) == c.euid = 0

sys_setgid(c, gid) ==
    IF Privileged(c)
    THEN [ok |-> TRUE, cred |-> [c EXCEPT !.rgid = gid, !.egid = gid, !.sgid = gid]]
    ELSE IF gid \in {c.rgid, c.sgid}
         THEN [ok |-> TRUE, cred |-> [c EXCEPT !.egid = gid]]
         ELSE [ok |-> FALSE, cred |-> c]

sys_setgroups(c, gids) ==
    IF Privileged(c)
    THEN [ok |-> TRUE, cred |-> [c EXCEPT !.groups = ToSet(gids)]]
    ELSE [ok |-> FALSE, cred |-> c]

sys_setegid(c, gid) ==
    IF Privileged(c) \/ gid \in {c.rgid, c.egid, c.sgid}
    THEN [ok |-> TRUE, cred |-> [c EXCEPT !.egid = gid]]
    ELSE [ok |-> FALSE, cred |-> c]

sys_setresuid(c, r, e, s) ==
    IF Privileged(c) \/ {r, e, s} \subseteq {c.ruid, c.euid, c.suid}
    THEN [ok |-> TRUE, cred |-> [c EXCEPT !.ruid = r, !.euid = e, !.suid = s]]
    ELSE [ok |-> FALSE, cred |-> c]

\* ------------------------------------------------- BecomeUser.py: resolution
\* the value config.get("tsi.switch_uid", True) may have when initialize runs
SwitchUidSettings == {"absent", "True", "False"}
Truthy(v) == IF v = "absent" THEN TRUE ELSE v = "True"

\* initialize: the switch_uid flag recorded in the configuration
initialize_switch_uid(setting, euid) ==
    IF Truthy(setting) \/ euid = 0 THEN TRUE ELSE FALSE

\* check_membership that never looks at the member list
check_membership_skipped(group, group_gid, user, cfg) == TRUE

check_membership(group, group_gid, user, cfg) ==
    IF cfg.enforce_os_gids /\ group_gid # get_gid_4user(user)
    THEN user \in get_members_4group(group)
    ELSE TRUE

\* get_primary_group that refuses an unknown group whatever fail_on_invalid_gids is
get_primary_group_no_fallback(primary, user, fail_on_invalid_gids, cfg) ==
    IF primary = "DEFAULT_GID"
    THEN Return(get_gid_4user(user))
    ELSE LET looked == get_gid_4group(primary) IN
         IF looked = -1
         THEN Raise(RuntimeError("unknown primary group", primary))
         ELSE IF ~check_membership(primary, looked, user, cfg)
              THEN IF fail_on_invalid_gids
                   THEN Raise(RuntimeError("not a member of the group", primary))
                   ELSE Return(get_gid_4user(user))
              ELSE Return(looked)

get_primary_group(primary, user, fail_on_invalid_gids, cfg) ==
    IF primary = "DEFAULT_GID"
    THEN Return(get_gid_4user(user))
    ELSE LET looked == get_gid_4group(primary) IN
         IF looked = -1 /\ fail_on_invalid_gids
         THEN Raise(RuntimeError("unknown primary group", primary))
         ELSE LET new_gid0 == IF looked = -1 THEN get_gid_4user(user) ELSE looked IN
              IF ~check_membership(primary, new_gid0, user, cfg)
              THEN IF fail_on_invalid_gids
                   THEN Raise(RuntimeError("not a member of the group", primary))
                   ELSE Return(get_gid_4user(user))
              ELSE Return(new_gid0)

\* sup_gids is a dict used as an insertion-ordered set of keys
AddKey(d, k) == IF k \in ToSet(d) THEN d ELSE Append(d, k)

RECURSIVE AddKeys(_, _)
AddKeys(d, ks) == IF ks = <<>> THEN d ELSE AddKeys(AddKey(d, Head(ks)), Tail(ks))

\* the loop with the two tests merged into 'g == "DEFAULT_GID" and not
\* added_default': a repeated DEFAULT_GID is looked up as a group name
RECURSIVE sup_loop_repeat_as_name(_, _, _, _, _)
sup_loop_repeat_as_name(gs, sup_gids, added_default, user, cfg) ==
    IF gs = <<>>
    THEN Return(sup_gids)
    ELSE LET g == Head(gs)
             tmp == get_gid_4group(g)
         IN  IF g = "DEFAULT_GID" /\ ~added_default
             THEN sup_loop_repeat_as_name(Tail(gs), AddKeys(sup_gids, get_gids_4user(user)), TRUE, user, cfg)
             ELSE IF tmp = -1
                  THEN IF cfg.fail_on_invalid_gids
                       THEN Raise(RuntimeError("unknown supplementary group", g))
                       ELSE sup_loop_repeat_as_name(Tail(gs), sup_gids, added_default, user, cfg)
                  ELSE IF ~check_membership(g, tmp, user, cfg) /\ cfg.fail_on_invalid_gids
                       THEN Raise(RuntimeError("not a member of the group", g))
                       ELSE sup_loop_repeat_as_name(Tail(gs), AddKey(sup_gids, tmp), added_default, user, cfg)

\* the loop of get_supplementary_groups over requested_groups
RECURSIVE sup_loop(_, _, _, _, _)
sup_loop(gs, sup_gids, added_default, user, cfg) ==
    IF gs = <<>>
    THEN Return(sup_gids)
    ELSE LET g == Head(gs)
             tmp == get_gid_4group(g)
         IN  IF g = "DEFAULT_GID"
             THEN IF ~added_default
                  THEN sup_loop(Tail(gs), AddKeys(sup_gids, get_gids_4user(user)), TRUE, user, cfg)
                  ELSE sup_loop(Tail(gs), sup_gids, added_default, user, cfg)
             ELSE IF tmp = -1
                  THEN IF cfg.fail_on_invalid_gids
                       THEN Raise(RuntimeError("unknown supplementary group", g))
                       ELSE sup_loop(Tail(gs), sup_gids, added_default, user, cfg)
                  ELSE IF ~check_membership(g, tmp, user, cfg) /\ cfg.fail_on_invalid_gids
                       THEN Raise(RuntimeError("not a member of the group", g))
                       \* without fail_on_invalid_gids only a warning is logged and
                       \* control falls through to sup_gids[tmp] = True
                       ELSE sup_loop(Tail(gs), AddKey(sup_gids, tmp), added_default, user, cfg)

\* get_supplementary_groups without "sup_gids[primary] = True"
get_supplementary_groups_unseeded(requested_groups, primary, user, cfg) ==
    sup_loop(requested_groups, <<>>, FALSE, user, cfg)

get_supplementary_groups(requested_groups, primary, user, cfg) ==
    sup_loop(requested_groups, <<primary>>, FALSE, user, cfg)


\* lines 143-173 of become_user: everything before the first identity-mutating call
BUOutcome(outcome, e, uid, gid, gids) ==
    [outcome |-> outcome, exc |-> e, new_uid |-> uid, new_gid |-> gid, new_gids |-> gids]

\* become_user without the "new_uid == 0" rejection
become_user_resolve_allows_root(user, requested_groups, cfg) ==
    LET primary == requested_groups[1]
        uid == get_uid_4user(user)
        pg == get_primary_group(primary, user, cfg.fail_on_invalid_gids, cfg)
        sg == get_supplementary_groups(requested_groups, pg.val, user, cfg)
    IN  IF ~cfg.switch_uid
        THEN IF cfg.effective_uid = 0
             THEN BUOutcome("raise", RuntimeError("running as root and not setting uids", ""), -1, -1, <<>>)
             ELSE BUOutcome("noop", NoExc, -1, -1, <<>>)
        ELSE IF uid = -1
        THEN BUOutcome("raise", RuntimeError("unknown user", user), uid, -1, <<>>)
        ELSE IF primary = "NONE"
        THEN BUOutcome("switch", NoExc, uid, get_gid_4user(user), get_gids_4user(user))
        ELSE IF pg.raised
        THEN BUOutcome("raise", pg.exc, uid, -1, <<>>)
        ELSE IF sg.raised
        THEN BUOutcome("raise", sg.exc, uid, pg.val, <<>>)
        ELSE BUOutcome("switch", NoExc, uid, pg.val, sg.val)

become_user_resolve(user, requested_groups, cfg) ==
    LET primary == requested_groups[1]
        uid == get_uid_4user(user)
        pg == get_primary_group(primary, user, cfg.fail_on_invalid_gids, cfg)
        sg == get_supplementary_groups(requested_groups, pg.val, user, cfg)
    IN  IF ~cfg.switch_uid
        THEN IF cfg.effective_uid = 0
             THEN BUOutcome("raise", RuntimeError("running as root and not setting uids", ""), -1, -1, <<>>)
             ELSE BUOutcome("noop", NoExc, -1, -1, <<>>)
        ELSE IF uid = -1
        THEN BUOutcome("raise", RuntimeError("unknown user", user), uid, -1, <<>>)
        ELSE IF uid = 0
        THEN BUOutcome("raise", RuntimeError("run a command as root", user), uid, -1, <<>>)
        ELSE IF primary = "NONE"
        THEN BUOutcome("switch", NoExc, uid, get_gid_4user(user), get_gids_4user(user))
        ELSE IF pg.raised
        THEN BUOutcome("raise", pg.exc, uid, -1, <<>>)
        ELSE IF sg.raised
        THEN BUOutcome("raise", sg.exc, uid, pg.val, <<>>)
        ELSE BUOutcome("switch", NoExc, uid, pg.val, sg.val)

\* lines 187-195 of become_user: the check after the four calls
become_user_verify(c, uid, gid, gids) ==
    IF <<c.ruid, c.euid>> # <<uid, uid>>
    THEN Raise(RuntimeError("could not set uid", ""))
    ELSE IF <<c.rgid, c.egid>> # <<gid, gid>>
    THEN Raise(RuntimeError("could not set gid", ""))
    ELSE IF c.groups # ToSet(gids)
    THEN Raise(RuntimeError("could not set supplementary groups", ""))
    ELSE Return(TRUE)

UserEnv(user) == [HOME |-> get_home_4user(user), USER |-> user, LOGNAME |-> user]
SafeEnv == [HOME |-> "/tmp", USER |-> "nobody", LOGNAME |-> "nobody"]

\* restore_id: the calls run in order, the first refused one raises
RestoreResult(raised, c, e, call) ==
    [raised |-> raised, cred |-> c, env |-> e,
     exc |-> IF raised THEN PermissionError(call) ELSE NoExc]

\* restore_id without its setgroups call
restore_id_keeps_groups(c, e, cfg) ==
    LET euid == cfg.effective_uid
        egid == cfg.effective_gid
        s1 == sys_setresuid(c, euid, euid, euid)
        s2 == sys_setgid(s1.cred, egid)
        s4 == sys_setegid(s2.cred, egid)
    IN  IF ~cfg.switch_uid THEN RestoreResult(FALSE, c, e, "")
        ELSE IF ~s1.ok THEN RestoreResult(TRUE, c, e, "setresuid")
        ELSE IF ~s2.ok THEN RestoreResult(TRUE, s1.cred, e, "setgid")
        ELSE IF ~s4.ok THEN RestoreResult(TRUE, s2.cred, e, "setegid")
        ELSE RestoreResult(FALSE, s4.cred, SafeEnv, "")

\* restore_id without the "if setting_uids" guard
restore_id_unguarded(c, e, cfg) ==
    LET euid == cfg.effective_uid
        egid == cfg.effective_gid
        s1 == sys_setresuid(c, euid, euid, euid)
        s2 == sys_setgid(s1.cred, egid)
        s3 == sys_setgroups(s2.cred, <<egid>>)
        s4 == sys_setegid(s3.cred, egid)
    IN  IF ~s1.ok THEN RestoreResult(TRUE, c, e, "setresuid")
        ELSE IF ~s2.ok THEN RestoreResult(TRUE, s1.cred, e, "setgid")
        ELSE IF ~s3.ok THEN RestoreResult(TRUE, s2.cred, e, "setgroups")
        ELSE IF ~s4.ok THEN RestoreResult(TRUE, s3.cred, e, "setegid")
        ELSE RestoreResult(FALSE, s4.cred, SafeEnv, "")

\* restore_id without the three os.environ assignments
restore_id_keeps_env(c, e, cfg) ==
    LET euid == cfg.effective_uid
        egid == cfg.effective_gid
        s1 == sys_setresuid(c, euid, euid, euid)
        s2 == sys_setgid(s1.cred, egid)
        s3 == sys_setgroups(s2.cred, <<egid>>)
        s4 == sys_setegid(s3.cred, egid)
    IN  IF ~cfg.switch_uid THEN RestoreResult(FALSE, c, e, "")
        ELSE IF ~s1.ok THEN RestoreResult(TRUE, c, e, "setresuid")
        ELSE IF ~s2.ok THEN RestoreResult(TRUE, s1.cred, e, "setgid")
        ELSE IF ~s3.ok THEN RestoreResult(TRUE, s2.cred, e, "setgroups")
        ELSE IF ~s4.ok THEN RestoreResult(TRUE, s3.cred, e, "setegid")
        ELSE RestoreResult(FALSE, s4.cred, e, "")

restore_id(c, e, cfg) ==
    LET euid == cfg.effective_uid
        egid == cfg.effective_gid
        s1 == sys_setresuid(c, euid, euid, euid)
        s2 == sys_setgid(s1.cred, egid)
        s3 == sys_setgroups(s2.cred, <<egid>>)
        s4 == sys_setegid(s3.cred, egid)
    IN  IF ~cfg.switch_uid THEN RestoreResult(FALSE, c, e, "")
        ELSE IF ~s1.ok THEN RestoreResult(TRUE, c, e, "setresuid")
        ELSE IF ~s2.ok THEN RestoreResult(TRUE, s1.cred, e, "setgid")
        ELSE IF ~s3.ok THEN RestoreResult(TRUE, s2.cred, e, "setgroups")
        ELSE IF ~s4.ok THEN RestoreResult(TRUE, s3.cred, e, "setegid")
        ELSE RestoreResult(FALSE, s4.cred, SafeEnv, "")

\* ------------------------------------------------------- TSI.py: dispatching
\* the keys of the table init_functions builds, in insertion order
functions ==
    << "TSI_PING", "TSI_PING_UID", "TSI_EXECUTESCRIPT", "TSI_GETFILECHUNK",
       "TSI_PUTFILECHUNK", "TSI_LS", "TSI_DF", "TSI_UFTP", "TSI_SUBMIT",
       "TSI_GETSTATUSLISTING", "TSI_GETPROCESSLISTING", "TSI_GETJOBDETAILS",
       "TSI_ABORTJOB", "TSI_HOLDJOB", "TSI_RESUMEJOB", "TSI_GET_COMPUTE_BUDGET",
       "TSI_MAKE_RESERVATION", "TSI_QUERY_RESERVATION", "TSI_CANCEL_RESERVATION",
       "TSI_FILE_ACL" >>

ForkCommands == {"TSI_EXECUTESCRIPT", "TSI_SUBMIT", "TSI_UFTP"}

\* A message is its '#TSI_<CMD>' tag lines in order of appearance.  Its identity
\* line is read by handle_function alone, and is drawn where handle_function
\* searches for it.
TagLines == {"TSI_PING", "TSI_PING_UID", "TSI_EXECUTESCRIPT", "TSI_MYSTERY"}

RECURSIVE SeqsUpTo(_, _)
SeqsUpTo(S, n) ==
    IF n = 0 THEN {<<>>}
    ELSE LET shorter == SeqsUpTo(S, n - 1)
         IN  shorter \cup {Append(q, x) : q \in shorter, x \in S}

GroupLists == SeqsUpTo(Selectors, MaxGroups) \ {<<>>}

\* what re.search(r".*#TSI_IDENTITY (\S+) (\S+)\n.*", message) can give: None, or
\* the user and the ':'-separated groups of the first identity line
NoIdentity == [present |-> FALSE, user |-> "", groups |-> <<>>]
IdentityLines == {[present |-> TRUE, user |-> u, groups |-> gs] : u \in Users, gs \in GroupLists}
Messages == [tags : SeqsUpTo(TagLines, MaxTags)]

\* the loop "for cmd in functions: re.search(r".*#%s\n" % cmd, message)" of process
RECURSIVE search_from(_, _)
search_from(i, message) ==
    IF i > Len(functions) THEN "None"
    ELSE IF functions[i] \in ToSet(message.tags) THEN functions[i]
    ELSE search_from(i + 1, message)

search_command(message) == search_from(1, message)

do_fork(cfg, cmd) == cfg.open_user_sessions /\ cmd \in ForkCommands

\* ------------------------------------------------- TSI.py: the configuration
\* values a configuration dictionary holds: Python booleans, strings, the
\* integer 0 that setup_defaults stores for tsi.debug, and a missing key
PyBool(b) == [type |-> "bool", b |-> b, s |-> ""]
PyStr(s) == [type |-> "str", b |-> FALSE, s |-> s]
PyInt0 == [type |-> "int", b |-> FALSE, s |-> "0"]
PyMissing == [type |-> "missing", b |-> FALSE, s |-> ""]

\* the truth value Python gives a dictionary value in "if v" and "v or ..."
PyTruthy(v) ==
    CASE v.type = "bool" -> v.b
      [] v.type = "str"  -> v.s # ""
      [] OTHER           -> FALSE

\* the texts a line can carry after '=', as group(2) of the line pattern
ValueTexts == {"true", "TRUE", "1", "false", "0", " "}

\* str.strip() and str.lower() on those texts
Strip(text) == IF text = " " THEN "" ELSE text
Lower(text) == IF text = "TRUE" THEN "true" ELSE text

boolean_keys ==
    << "tsi.open_user_sessions", "tsi.enforce_os_gids", "tsi.fail_on_invalid_gids",
       "tsi.use_id_to_resolve_gids", "tsi.use_syslog", "tsi.debug" >>

ConfigKeys == ToSet(boolean_keys) \cup {"tsi.switch_uid"}

\* setup_defaults: tsi.switch_uid gets no default
setup_defaults ==
    [k \in ConfigKeys |->
        CASE k = "tsi.enforce_os_gids" -> PyBool(TRUE)
          [] k = "tsi.debug"           -> PyInt0
          [] k = "tsi.switch_uid"      -> PyMissing
          [] OTHER                     -> PyBool(FALSE)]

\* process_config_value for the keys above: a boolean key stores a boolean,
\* every other key stores the text
process_config_value(key, value, cfg) ==
    IF key \in ToSet(boolean_keys)
    THEN [cfg EXCEPT ![key] = PyBool(Lower(value) \in {"1", "true"})]
    ELSE [cfg EXCEPT ![key] = PyStr(value)]

\* what config.get("tsi.switch_uid", True) gives initialize
SettingOf(v) ==
    IF v.type = "missing" THEN "absent"
    ELSE IF PyTruthy(v) THEN "True" ELSE "False"

NoFile == [k \in ConfigKeys |-> PyMissing]
NoLine == [key |-> "", value |-> ""]
NoConfig ==
    [effective_uid |-> -1, effective_gid |-> -1, switch_uid |-> FALSE,
     enforce_os_gids |-> FALSE, fail_on_invalid_gids |-> FALSE,
     open_user_sessions |-> FALSE]

\* ---------------------------------------------------------------- the state
VARIABLES
    config,       \* the configuration dictionary after initialize
    cred,         \* credentials of the running process
    env,          \* HOME, USER, LOGNAME of the running process
    pc,           \* control point of the running process
    proc,         \* "worker" or, between fork and the child's end, "child"
    parent,       \* the waiting parent's credentials and environment
    command,      \* process: the command found in the message
    user, groups, \* handle_function / become_user: the parsed identity
    pam_session,  \* handle_function: whether the local pam_session is bound
    new_uid, new_gid, new_gids,   \* become_user: the resolved identity
    exc,          \* the exception being handled or propagated
    out,          \* messages written to the connector for the current request
    peerUp,       \* the peer has not shut the connection down
    firstTag,     \* history: the recognised tag that occurs first in the message
    switched,     \* history: handle_function entered "if switch_uid:" for this request
    restored,     \* history: restore_id was called for this request
    invoked,      \* history: the handler function was called for this request
    bu_result,    \* history: how the last become_user call ended
    bu_entry,     \* history: credentials and environment when become_user was entered
    child_exit,   \* history: how the forked child of this request ended
    launched,     \* history: credentials and environment when initialize ran
    before,       \* history: credentials and environment when the message was read
    file_config,  \* startup: the dictionary read_config_file has built so far
    config_line   \* startup: the 'key = value' line processed last

vars == <<config, cred, env, pc, proc, parent, command, user, groups,
          pam_session, new_uid, new_gid, new_gids, exc, out, peerUp, firstTag,
          switched, restored, invoked, bu_result, bu_entry, child_exit, launched,
          before, file_config, config_line>>

RootCred == [ruid |-> 0, euid |-> 0, suid |-> 0, rgid |-> 0, egid |-> 0, sgid |-> 0, groups |-> {0, 4}]
ServiceCred == [ruid |-> 50, euid |-> 50, suid |-> 50, rgid |-> 50, egid |-> 50, sgid |-> 50, groups |-> {50}]

\* how the TSI may be started: as root (with root's supplementary groups), or
\* as a service account
Launches ==
    { [cred |-> RootCred, env |-> [HOME |-> "/root", USER |-> "root", LOGNAME |-> "root"]],
      [cred |-> ServiceCred, env |-> [HOME |-> "/home/tsi", USER |-> "tsi", LOGNAME |-> "tsi"]] }

NoParent == [present |-> FALSE, cred |-> RootCred, env |-> SafeEnv]
NoEntry == [cred |-> RootCred, env |-> SafeEnv]

\* initialize: what it stores in the configuration
initialize(launch, setting, enforce, failinv, sessions) ==
    [effective_uid |-> launch.cred.euid,
     effective_gid |-> launch.cred.egid,
     switch_uid |-> initialize_switch_uid(setting, launch.cred.euid),
     enforce_os_gids |-> enforce,
     fail_on_invalid_gids |-> failinv,
     open_user_sessions |-> sessions]

\* the state of a process that has handled nothing yet
InitLocals ==
    /\ proc = "worker"
    /\ parent = NoParent
    /\ command = "None"
    /\ user = ""
    /\ groups = <<>>
    /\ pam_session = FALSE
    /\ new_uid = -1
    /\ new_gid = -1
    /\ new_gids = <<>>
    /\ exc = NoExc
    /\ out = <<>>
    /\ peerUp = TRUE
    /\ firstTag = "None"
    /\ switched = FALSE
    /\ restored = FALSE
    /\ invoked = FALSE
    /\ bu_result = "none"
    /\ bu_entry = NoEntry
    /\ child_exit = "none"

\* the process after initialize, for every configuration initialize can be
\* handed; how the configuration file gets there is the startup specification
InitCommon ==
    /\ \E launch \in Launches, setting \in SwitchUidSettings,
          enforce \in BOOLEAN, failinv \in BOOLEAN, sessions \in BOOLEAN :
          /\ config = initialize(launch, setting, enforce, failinv, sessions)
          /\ cred = launch.cred
          /\ env = launch.env
          /\ launched = launch
          /\ before = launch
    /\ file_config = NoFile
    /\ config_line = NoLine
    /\ InitLocals


\* ------------------------------------------------------------ frame helpers
startup == <<config, file_config, config_line>>
request == <<command, firstTag>>
identity == <<cred, env>>
procs == <<proc, parent, child_exit>>
hfLocals == <<user, groups, pam_session>>
buLocals == <<new_uid, new_gid, new_gids>>
connector == <<out, peerUp>>
history == <<switched, restored, invoked, launched, before>>

\* whether a connector write issued now finds the peer still there
PeerAfter == IF peerUp THEN BOOLEAN ELSE {FALSE}

Msg(kind, text, arg) == [kind |-> kind, text |-> text, arg |-> arg, by |-> proc]

\* the locals of handle_function and become_user end with the call
LocalsGone ==
    /\ user' = ""
    /\ groups' = <<>>
    /\ pam_session' = FALSE
    /\ new_uid' = -1
    /\ new_gid' = -1
    /\ new_gids' = <<>>
    /\ bu_entry' = NoEntry

\* an exception that leaves handle_function but is swallowed by its caller
Propagate_swallowed(e) ==
    /\ pc' = "eom"
    /\ exc' = e
    /\ proc' = "worker"
    /\ parent' = NoParent
    /\ child_exit' = IF proc = "worker" THEN child_exit ELSE "exception"
    /\ LocalsGone

\* An exception leaves handle_function: nothing up the stack (process, main)
\* catches it.  The worker dies; a forked child dies with it, its parent's
\* waitpid returns and the parent returns from handle_function.
Propagate(e) ==
    IF proc = "worker"
    THEN /\ pc' = "crashed"
         /\ exc' = e
         /\ UNCHANGED <<procs, hfLocals, buLocals, bu_entry>>
    ELSE /\ pc' = "eom"
         /\ exc' = NoExc
         /\ proc' = "worker"
         /\ parent' = NoParent
         /\ child_exit' = "exception"
         /\ LocalsGone

\* the credentials and environment left after Propagate
AfterPropagate(c, e) ==
    IF proc = "worker"
    THEN cred' = c /\ env' = e
    ELSE cred' = parent.cred /\ env' = parent.env

\* ------------------------------------------------- become_user, step by step
\* lines 143-173: the unprivileged no-op, the rejections, the group resolution
BU_Resolve ==
    /\ pc = "bu_start"
    /\ LET r == become_user_resolve(user, groups, config) IN
       /\ new_uid' = r.new_uid
       /\ new_gid' = r.new_gid
       /\ new_gids' = r.new_gids
       /\ exc' = r.exc
       /\ pc' = CASE r.outcome = "noop"  -> "bu_returned"
                  [] r.outcome = "raise" -> "raised"
                  [] OTHER               -> "bu_setgid"
       /\ bu_result' = CASE r.outcome = "noop"  -> "ok"
                         [] r.outcome = "raise" -> "raised"
                         [] OTHER               -> bu_result
    /\ UNCHANGED <<startup, identity, procs, request, hfLocals, connector, history, bu_entry>>

\* one identity-mutating call of lines 182-185: a refused call raises
BU_Call(at, res, call, next) ==
    /\ pc = at
    /\ IF res.ok
       THEN /\ cred' = res.cred
            /\ pc' = next
            /\ UNCHANGED <<exc, bu_result>>
       ELSE /\ cred' = cred
            /\ pc' = "raised"
            /\ exc' = PermissionError(call)
            /\ bu_result' = "raised"
    /\ UNCHANGED <<startup, env, procs, request, hfLocals, buLocals, connector, history, bu_entry>>

BU_SetGid == BU_Call("bu_setgid", sys_setgid(cred, new_gid), "setgid", "bu_setgroups")

BU_SetGroups == BU_Call("bu_setgroups", sys_setgroups(cred, new_gids), "setgroups", "bu_setegid")

BU_SetEGid == BU_Call("bu_setegid", sys_setegid(cred, new_gid), "setegid", "bu_setresuid")

\* the UID change as setresuid(new_uid, new_uid, new_uid): no saved UID kept
BU_SetResUid_drops_saved ==
    BU_Call("bu_setresuid", sys_setresuid(cred, new_uid, new_uid, new_uid),
            "setresuid", "bu_verify")

BU_SetResUid ==
    BU_Call("bu_setresuid", sys_setresuid(cred, new_uid, new_uid, config.effective_uid),
            "setresuid", "bu_verify")

\* lines 187-202: verify, then export HOME, USER and LOGNAME
BU_VerifyAndExport ==
    /\ pc = "bu_verify"
    /\ LET v == become_user_verify(cred, new_uid, new_gid, new_gids) IN
       IF v.raised
       THEN /\ pc' = "raised"
            /\ exc' = v.exc
            /\ bu_result' = "raised"
            /\ env' = env
       ELSE /\ pc' = "bu_returned"
            /\ exc' = exc
            /\ bu_result' = "ok"
            /\ env' = UserEnv(user)
    /\ UNCHANGED <<startup, cred, procs, request, hfLocals, buLocals, connector, history, bu_entry>>

BecomeUserSteps ==
    \/ BU_Resolve
    \/ BU_SetGid
    \/ BU_SetGroups
    \/ BU_SetEGid
    \/ BU_SetResUid
    \/ BU_VerifyAndExport

\* ------------------------------------- become_user and restore_id on their own
\* a caller that calls become_user(user, groups) and, whatever comes of it,
\* restore_id, as handle_function does
Call_BecomeUser ==
    /\ pc = "idle"
    /\ \E u \in Users, gs \in GroupLists :
          /\ user' = u
          /\ groups' = gs
    /\ pc' = "bu_start"
    /\ bu_result' = "none"
    /\ bu_entry' = [cred |-> cred, env |-> env]
    /\ new_uid' = -1
    /\ new_gid' = -1
    /\ new_gids' = <<>>
    /\ exc' = NoExc
    /\ UNCHANGED <<startup, identity, procs, request, pam_session, connector, history>>

Call_RestoreId ==
    /\ pc \in {"bu_returned", "raised"}
    /\ LET r == restore_id(cred, env, config) IN
       /\ cred' = r.cred
       /\ env' = r.env
       /\ exc' = r.exc
       /\ pc' = IF r.raised THEN "crashed" ELSE "idle"
    /\ restored' = TRUE
    /\ LocalsGone
    /\ UNCHANGED <<startup, procs, request, connector, switched, invoked, bu_result,
                   launched, before>>

InitBU == InitCommon /\ pc = "idle"

NextBU == BecomeUserSteps \/ Call_BecomeUser \/ Call_RestoreId

SpecBU == InitBU /\ [][NextBU]_vars


\* ------------------------------------------------------------ main: startup
\* read_config_file: one 'key = value' line is matched, stripped and stored
ReadConfigLine ==
    /\ pc = "read_config"
    /\ \E key \in ConfigKeys, text \in ValueTexts :
          LET value == Strip(text) IN
          /\ file_config' = process_config_value(key, value, file_config)
          /\ config_line' = [key |-> key, value |-> value]
    /\ UNCHANGED <<config, identity, pc, procs, request, hfLocals, buLocals, exc,
                   connector, history, bu_result, bu_entry>>

\* main: BecomeUser.initialize(config, LOG), then the connection and process
Startup_Initialize ==
    /\ pc = "read_config"
    /\ config' = initialize(launched,
                            SettingOf(file_config["tsi.switch_uid"]),
                            PyTruthy(file_config["tsi.enforce_os_gids"]),
                            PyTruthy(file_config["tsi.fail_on_invalid_gids"]),
                            PyTruthy(file_config["tsi.open_user_sessions"]))
    /\ pc' = "process"
    /\ UNCHANGED <<file_config, config_line, identity, procs, request, hfLocals,
                   buLocals, exc, connector, history, bu_result, bu_entry>>

InitCfg ==
    /\ \E launch \in Launches :
          /\ cred = launch.cred
          /\ env = launch.env
          /\ launched = launch
          /\ before = launch
    /\ config = NoConfig
    /\ file_config = setup_defaults
    /\ config_line = NoLine
    /\ InitLocals
    /\ pc = "read_config"

NextCfg == ReadConfigLine \/ Startup_Initialize

SpecCfg == InitCfg /\ [][NextCfg]_vars


\* --------------------------------------------------- process: the message loop
MY_VERSION == Msg("message", "__VERSION__", "")
ENDOFMESSAGE == Msg("message", "ENDOFMESSAGE", "")

\* the recognised tag that occurs first in the message, "None" if there is none
RECURSIVE FirstRecognised(_)
FirstRecognised(tags) ==
    IF tags = <<>> THEN "None"
    ELSE IF Head(tags) \in ToSet(functions) THEN Head(tags)
    ELSE FirstRecognised(Tail(tags))

\* lines 261-278: read one message and look for its command; a failed read
\* closes the connector and ends the loop
ReadMessage ==
    /\ pc = "read"
    /\ \E up \in PeerAfter :
          /\ peerUp' = up
          /\ IF up
             THEN \E message \in Messages :
                     /\ command' = search_command(message)
                     /\ firstTag' = FirstRecognised(message.tags)
                     /\ pc' = "dispatch"
             ELSE /\ pc' = "closed"
                  /\ UNCHANGED request
    /\ out' = <<>>
    /\ exc' = NoExc
    /\ switched' = FALSE
    /\ restored' = FALSE
    /\ invoked' = FALSE
    /\ bu_result' = "none"
    /\ child_exit' = "none"
    /\ before' = [cred |-> cred, env |-> env]
    /\ UNCHANGED <<startup, identity, proc, parent, hfLocals, buLocals, bu_entry, launched>>

\* a write of process itself (lines 281, 283, 287): an IOError is not caught
ProcessWrite(m, next) ==
    \E up \in PeerAfter :
       /\ peerUp' = up
       /\ IF up
          THEN /\ out' = Append(out, m)
               /\ pc' = next
               /\ exc' = exc
          ELSE /\ out' = out
               /\ pc' = "crashed"
               /\ exc' = IOError("write_message")

\* lines 280-281: no function was found
UnknownCommand ==
    /\ pc = "dispatch"
    /\ command = "None"
    /\ ProcessWrite(Msg("failed", "Unknown command", command), "eom")
    /\ firstTag' = "None"
    /\ UNCHANGED <<startup, identity, procs, command, hfLocals, buLocals,
                   history, bu_result, bu_entry>>

\* lines 282-283: TSI_PING is answered without handle_function
Ping ==
    /\ pc = "dispatch"
    /\ command = "TSI_PING"
    /\ ProcessWrite(MY_VERSION, "eom")
    /\ firstTag' = "None"
    /\ UNCHANGED <<startup, identity, procs, command, hfLocals, buLocals,
                   history, bu_result, bu_entry>>

\* lines 284-285 and 205-208: handle_function is entered
CallHandleFunction ==
    /\ pc = "dispatch"
    /\ command \notin {"None", "TSI_PING"}
    /\ pc' = IF do_fork(config, command) THEN "hf_fork" ELSE "hf_try"
    /\ firstTag' = "None"
    /\ UNCHANGED <<startup, identity, procs, command, hfLocals, buLocals,
                   exc, connector, history, bu_result, bu_entry>>

\* lines 209-212: the child goes on with the parent's credentials and
\* environment; the parent waits for it
HF_Fork ==
    /\ pc = "hf_fork"
    /\ proc' = "child"
    /\ parent' = [present |-> TRUE, cred |-> cred, env |-> env]
    /\ pc' = "hf_try"
    /\ UNCHANGED <<startup, identity, child_exit, request, hfLocals, buLocals, exc,
                   connector, history, bu_result, bu_entry>>

\* lines 214-223 with switch_uid false: straight to the handler
HF_NoSwitch ==
    /\ pc = "hf_try"
    /\ ~config.switch_uid
    /\ pc' = "hf_call"
    /\ UNCHANGED <<startup, identity, procs, request, hfLocals, buLocals, exc,
                   connector, history, bu_result, bu_entry>>

\* lines 214-223: parse the identity line, open the PAM session, call become_user
HF_Identity ==
    /\ pc = "hf_try"
    /\ config.switch_uid
    /\ switched' = TRUE
    /\ \E id_info \in IdentityLines \cup {NoIdentity} :
       IF ~id_info.present
       THEN /\ pc' = "raised"
            /\ exc' = RuntimeError("No user/group info given", "")
            /\ UNCHANGED <<hfLocals, bu_entry>>
       ELSE /\ user' = id_info.user
            /\ groups' = id_info.groups
            /\ IF config.open_user_sessions
               THEN /\ pam_session' = TRUE
                    /\ \E opened \in BOOLEAN :
                          IF opened
                          THEN pc' = "bu_start" /\ exc' = exc
                          ELSE pc' = "raised" /\ exc' = PamError(id_info.user)
               ELSE /\ pam_session' = pam_session
                    /\ pc' = "bu_start"
                    /\ exc' = exc
            /\ bu_entry' = [cred |-> cred, env |-> env]
    /\ UNCHANGED <<startup, identity, procs, request, buLocals, connector, restored,
                   invoked, bu_result, launched, before>>

\* handle_function going on to the handler although become_user failed
HF_Switched_ignores_failure ==
    /\ pc \in {"bu_returned", "raised"}
    /\ bu_result # "none"
    /\ pc' = "hf_call"
    /\ UNCHANGED <<startup, identity, procs, request, hfLocals, buLocals, exc,
                   connector, history, bu_result, bu_entry>>

\* lines 224-225: become_user returned True
HF_Switched ==
    /\ pc = "bu_returned"
    /\ pc' = "hf_call"
    /\ UNCHANGED <<startup, identity, procs, request, hfLocals, buLocals, exc,
                   connector, history, bu_result, bu_entry>>

\* what the handler writes when it returns: ping_uid (lines 153-156) writes the
\* version and the stored UID, execute_script (lines 160-171) and the handlers
\* of the other modules an ok or a failed message
HandlerOutput(cmd, outcome) ==
    IF cmd = "TSI_PING_UID"
    THEN <<MY_VERSION, Msg("message", "running as UID", "effective_uid")>>
    ELSE IF outcome = "ok" THEN <<Msg("ok", "output", "")>>
    ELSE <<Msg("failed", "output", "")>>

HandlerOutcomes(cmd) == IF cmd = "TSI_PING_UID" THEN {"ok"} ELSE {"ok", "failed", "raise"}

\* line 226: function(message, connector, config, LOG)
HF_CallFunction ==
    /\ pc = "hf_call"
    /\ invoked' = TRUE
    /\ \E outcome \in HandlerOutcomes(command), up \in PeerAfter :
          /\ peerUp' = up
          /\ IF outcome = "raise"
             THEN /\ out' = out
                  /\ pc' = "raised"
                  /\ exc' = HandlerError
             ELSE IF up
             THEN /\ out' = out \o HandlerOutput(command, outcome)
                  /\ pc' = "hf_reset"
                  /\ exc' = exc
             ELSE /\ out' = out
                  /\ pc' = "raised"
                  /\ exc' = IOError("write_message")
    /\ UNCHANGED <<startup, identity, procs, request, hfLocals, buLocals, switched,
                   restored, bu_result, bu_entry, launched, before>>

\* an except clause that swallows the error without reporting it
HF_Except_silent ==
    /\ pc = "raised"
    /\ pc' = "hf_reset"
    /\ exc' = NoExc
    /\ UNCHANGED <<startup, identity, procs, request, hfLocals, buLocals, connector,
                   history, bu_result, bu_entry>>

\* lines 227-229: the bare except reports the failure on the connector; an
\* exception raised by that write leaves handle_function
HF_Except ==
    /\ pc = "raised"
    /\ \E up \in PeerAfter :
          /\ peerUp' = up
          /\ IF up
             THEN /\ out' = Append(out, Msg("failed", exc.text, exc.arg))
                  /\ pc' = "hf_reset"
                  /\ exc' = NoExc
                  /\ UNCHANGED <<identity, procs, hfLocals, buLocals, bu_entry>>
             ELSE /\ out' = out
                  /\ Propagate(IOError("write_message"))
                  /\ AfterPropagate(cred, env)
    /\ UNCHANGED <<startup, request, history, bu_result>>

\* handle_function without "if do_fork: os._exit(0)": the child returns too
Leave_without_exit == pc' = "eom" /\ LocalsGone

\* line 235: without a fork handle_function returns here
Leave ==
    IF do_fork(config, command)
    THEN pc' = "hf_exit" /\ UNCHANGED <<hfLocals, buLocals, bu_entry>>
    ELSE pc' = "eom" /\ LocalsGone

\* lines 231-234: restore_id, then close the PAM session
HF_ResetUserId ==
    /\ pc = "hf_reset"
    /\ IF ~config.switch_uid
       THEN /\ Leave
            /\ UNCHANGED <<identity, procs, exc, restored>>
       ELSE LET r == restore_id(cred, env, config) IN
            /\ restored' = TRUE
            /\ IF r.raised
               THEN Propagate(r.exc) /\ AfterPropagate(r.cred, r.env)
               ELSE IF config.open_user_sessions /\ ~pam_session
               THEN Propagate(UnboundLocalError("pam_session")) /\ AfterPropagate(r.cred, r.env)
               ELSE /\ cred' = r.cred
                    /\ env' = r.env
                    /\ Leave
                    /\ UNCHANGED <<procs, exc>>
    /\ UNCHANGED <<startup, request, connector, switched, invoked, bu_result, launched,
                   before>>

\* lines 235-236: the child leaves through os._exit(0); the parent's waitpid
\* returns and the parent returns from handle_function
HF_ChildExit ==
    /\ pc = "hf_exit"
    /\ proc = "child"
    /\ proc' = "worker"
    /\ cred' = parent.cred
    /\ env' = parent.env
    /\ parent' = NoParent
    /\ child_exit' = "_exit"
    /\ pc' = "eom"
    /\ LocalsGone
    /\ UNCHANGED <<startup, request, exc, connector, history, bu_result>>

\* line 287: terminate the transaction
WriteEndOfMessage ==
    /\ pc = "eom"
    /\ ProcessWrite(ENDOFMESSAGE, "read")
    /\ UNCHANGED <<startup, identity, procs, request, hfLocals, buLocals, history,
                   bu_result, bu_entry>>

Init == InitCommon /\ pc = "read"

Next ==
    \/ ReadMessage
    \/ UnknownCommand
    \/ Ping
    \/ CallHandleFunction
    \/ HF_Fork
    \/ HF_NoSwitch
    \/ HF_Identity
    \/ BecomeUserSteps
    \/ HF_Switched
    \/ HF_CallFunction
    \/ HF_Except
    \/ HF_ResetUserId
    \/ HF_ChildExit
    \/ WriteEndOfMessage

Spec == Init /\ [][Next]_vars


\* ===================================================================== claims
InHandleFunction ==
    pc \in {"hf_fork", "hf_try", "bu_start", "bu_setgid", "bu_setgroups", "bu_setegid",
            "bu_setresuid", "bu_verify", "bu_returned", "hf_call", "raised", "hf_reset",
            "hf_exit"}

\* the dispatcher has finished handling a request: its ENDOFMESSAGE is written
\* and the loop is back at the read
RequestFinished == pc = "read" /\ out # <<>>

\* restore_id ran for this request in the worker itself (not in a forked child)
RestoredInWorker == restored /\ child_exit = "none"

SameCredentials(c, d) ==
    /\ c.ruid = d.ruid
    /\ c.euid = d.euid
    /\ c.rgid = d.rgid
    /\ c.egid = d.egid
    /\ c.groups = d.groups

\* C1 as stated: once the dispatcher has finished handling a request, the real
\* and effective UID, the real and effective GID and the supplementary groups
\* are the ones the process had when initialize ran.
C1_RestoreToLaunch ==
    RequestFinished => SameCredentials(cred, launched.cred)

\* C1 amended: once the dispatcher has finished handling a request, the
\* effective UID and GID are the stored ones; where restore_id ran in the worker
\* the real, effective and saved UID are the stored effective UID, the real and
\* effective GID the stored effective GID and the supplementary groups exactly
\* {stored effective GID}; on the other paths the credentials are those the
\* process had when the message was read.
C1_RestoreClosure ==
    RequestFinished =>
        /\ cred.euid = config.effective_uid
        /\ cred.egid = config.effective_gid
        /\ IF RestoredInWorker
           THEN /\ cred.ruid = config.effective_uid
                /\ cred.suid = config.effective_uid
                /\ cred.rgid = config.effective_gid
                /\ cred.groups = {config.effective_gid}
           ELSE cred = before.cred

\* C1 witness: a request whose handler ran as alice is finished, and the
\* groups are not the ones of the launch
C1_Witness ==
    /\ RequestFinished
    /\ RestoredInWorker
    /\ invoked
    /\ bu_result = "ok"
    /\ cred.groups # launched.cred.groups

\* C2: with switch_uid true the handler is invoked only after become_user has
\* returned success for the user of the identity line; when it is invoked the
\* real and effective UID are that user's UID and not the stored UID, the real
\* and effective GID are the resolved primary gid and the supplementary groups
\* the resolved set; after a failed become_user the handler is not invoked.
C2_HandlerRunsAsUser ==
    /\ (config.switch_uid /\ pc = "hf_call") =>
          /\ bu_result = "ok"
          /\ cred.ruid = get_uid_4user(user)
          /\ cred.euid = get_uid_4user(user)
          /\ cred.euid # config.effective_uid
          /\ cred.euid > 0
          /\ cred.rgid = new_gid
          /\ cred.egid = new_gid
          /\ cred.groups = ToSet(new_gids)
    /\ (config.switch_uid /\ invoked) => bu_result = "ok"

\* C2 witness: scenario S2, the handler is about to run as alice (1001, 100)
\* with groups {100, 500}
C2_Witness ==
    /\ pc = "hf_call"
    /\ config.switch_uid
    /\ user = "alice"
    /\ groups = <<"users", "devs">>
    /\ cred.euid = 1001
    /\ cred.egid = 100
    /\ cred.groups = {100, 500}

\* a become_user call has just returned True
BecomeUserSucceeded == pc = "bu_returned" /\ bu_result = "ok"

\* C3 as stated: in every configuration, become_user never returns success for
\* a user that resolves to UID 0.
C3_NeverRootAnyConfig ==
    BecomeUserSucceeded => get_uid_4user(user) # 0

\* C3 amended: where the recorded switch_uid is true, become_user never returns
\* success for a user that resolves to UID 0; where it is false (unprivileged)
\* become_user returns success for every user, root included, and changes
\* neither the credentials nor the environment.
C3_NeverRoot ==
    BecomeUserSucceeded =>
        IF config.switch_uid
        THEN get_uid_4user(user) # 0 /\ cred.euid # 0 /\ cred.ruid # 0
        ELSE cred = bu_entry.cred /\ env = bu_entry.env /\ cred.euid # 0

\* C3 witness: a privileged become_user for root was rejected
C3_Witness ==
    /\ pc = "raised"
    /\ config.switch_uid
    /\ config.effective_uid = 0
    /\ user = "root"
    /\ bu_result = "raised"
    /\ exc = RuntimeError("run a command as root", "root")
    /\ cred = bu_entry.cred


\* the user belongs to the group: it is the user's OS primary group, or the
\* user is in its member list
BelongsTo(u, g) ==
    \/ get_gid_4group(g) # -1 /\ get_gid_4group(g) = get_gid_4user(u)
    \/ u \in get_members_4group(g)

\* the requested groups contain, after the primary selector, a group the user
\* does not belong to
RequestsForeignGroup(u, gs) ==
    \E i \in 2..Len(gs) : gs[i] # "DEFAULT_GID" /\ ~BelongsTo(u, gs[i])

\* C4: with enforce_os_gids and without fail_on_invalid_gids a requested group
\* that fails the membership check is skipped: after a successful become_user
\* every installed supplementary gid is the resolved primary, an OS default gid
\* of the user (DEFAULT_GID or NONE requested), or the gid of a requested group
\* the user belongs to.
C4_OnlyMemberGroups ==
    (BecomeUserSucceeded /\ config.switch_uid /\ config.enforce_os_gids
        /\ ~config.fail_on_invalid_gids) =>
        \A g \in cred.groups :
            \/ g = new_gid
            \/ /\ "DEFAULT_GID" \in ToSet(groups) \/ groups[1] = "NONE"
               /\ g \in ToSet(get_gids_4user(user))
            \/ \E i \in 1..Len(groups) :
                  get_gid_4group(groups[i]) = g /\ BelongsTo(user, groups[i])

\* a become_user call has ended, by returning or by raising
BecomeUserEnded == pc \in {"bu_returned", "raised"} /\ bu_result # "none"

BecomeUserMutating ==
    pc \in {"bu_setgid", "bu_setgroups", "bu_setegid", "bu_setresuid", "bu_verify"}

\* C5 as stated: with enforce_os_gids and fail_on_invalid_gids, a become_user
\* call whose requested groups contain a supplementary group the user does not
\* belong to fails, with the credentials and HOME/USER/LOGNAME unchanged.
C5_ForeignGroupFails ==
    (config.enforce_os_gids /\ config.fail_on_invalid_gids
        /\ RequestsForeignGroup(user, groups)) =>
        /\ ~BecomeUserMutating
        /\ BecomeUserEnded =>
              /\ bu_result = "raised"
              /\ cred = bu_entry.cred
              /\ env = bu_entry.env

\* C5 amended: the same, for a call with identity switching in effect
\* (recorded switch_uid true) whose first selector is not NONE; NONE makes
\* become_user ignore the rest of the list, and with switch_uid false
\* become_user returns success without looking at the groups.
C5_MembershipEnforced ==
    (config.enforce_os_gids /\ config.fail_on_invalid_gids /\ config.switch_uid
        /\ groups # <<>> /\ groups[1] # "NONE"
        /\ RequestsForeignGroup(user, groups)) =>
        /\ ~BecomeUserMutating
        /\ BecomeUserEnded =>
              /\ bu_result = "raised"
              /\ cred = bu_entry.cred
              /\ env = bu_entry.env

\* C5 witness: alice with primary users asked for admins and was refused
C5_Witness ==
    /\ pc = "raised"
    /\ config.enforce_os_gids
    /\ config.fail_on_invalid_gids
    /\ config.effective_uid = 0
    /\ user = "alice"
    /\ groups = <<"users", "admins">>
    /\ exc = RuntimeError("not a member of the group", "admins")
    /\ cred = bu_entry.cred

\* C6: after become_user succeeds with identity switching enabled, the
\* installed supplementary groups contain the resolved primary gid, which is
\* the real and effective GID.
C6_PrimaryInSupplementary ==
    (BecomeUserSucceeded /\ config.switch_uid) =>
        /\ new_gid \in cred.groups
        /\ cred.egid \in cred.groups
        /\ cred.egid = new_gid

\* C6 witness: become_user succeeded for a list whose primary selector fell
\* back to the user's default gid
C6_Witness ==
    /\ BecomeUserSucceeded
    /\ config.switch_uid
    /\ user = "alice"
    /\ groups = <<"nogrp">>
    /\ new_gid = 100
    /\ cred.groups = {100}


EndOfMessages(o) == Cardinality({i \in 1..Len(o) : o[i].text = "ENDOFMESSAGE"})

Reported(o, text) == \E i \in 1..Len(o) : o[i].kind = "failed" /\ o[i].text = text

\* the worker has died of an uncaught exception although the peer is connected
DiedWhileConnected == pc = "crashed" /\ peerUp

\* C7 (for a worker started as root): every message read gets exactly one
\* ENDOFMESSAGE, written after all other messages of the response and before the
\* next message is read, on every handling path; so while the peer is connected
\* the worker does not stop handling a message before that write.
C7_OneEndOfMessage ==
    config.effective_uid = 0 =>
        /\ RequestFinished =>
              EndOfMessages(out) = 1 /\ out[Len(out)].text = "ENDOFMESSAGE"
        /\ pc # "read" => EndOfMessages(out) = 0
        /\ ~DiedWhileConnected

\* C8: when a message holds more than one recognised tag line, the command
\* dispatched is the one whose tag occurs first in the message.
C8_FirstTagDispatched ==
    (pc = "dispatch" /\ firstTag # "None") => command = firstTag

\* C9 (for a worker started as root): a message without a recognised command
\* and, with switch_uid true, a message without an identity line get a failure
\* response, no handler call and an ENDOFMESSAGE, and the loop reads on: the
\* worker does not die of them, whatever open_user_sessions is.
C9_ProtocolErrorsNotFatal ==
    (config.effective_uid = 0
        /\ (Reported(out, "Unknown command") \/ Reported(out, "No user/group info given"))) =>
        /\ ~invoked
        /\ ~DiedWhileConnected
        /\ RequestFinished => out[Len(out)].text = "ENDOFMESSAGE"

\* C10: once handle_function has entered "if switch_uid:" for a request, it is
\* not left before restore_id was called, whether become_user failed, the
\* handler returned or raised, or the write of the failure response failed.
C10_RestoreBeforeLeaving ==
    (switched /\ ~InHandleFunction) => restored

\* the configuration file gave tsi.switch_uid a value that is not '1' or 'true'
SwitchUidConfiguredOff ==
    /\ file_config["tsi.switch_uid"].type = "str"
    /\ Lower(file_config["tsi.switch_uid"].s) \notin {"1", "true"}

\* C11: when the configuration sets switch_uid to false and the effective UID
\* is 0, startup is rejected and the worker never enters the message loop.
C11_RootMisconfigRejected ==
    (launched.cred.euid = 0 /\ SwitchUidConfiguredOff) => pc # "process"

\* C12: when the recorded switch_uid is false (so the effective UID is not 0),
\* become_user returns success for every user and group list, it and restore_id
\* make no identity-mutating call and raise nothing, and the UID, GID,
\* supplementary groups and HOME/USER/LOGNAME stay what they were.
C12_UnprivilegedNoop ==
    ~config.switch_uid =>
        /\ config.effective_uid # 0
        /\ cred = launched.cred
        /\ env = launched.env
        /\ ~BecomeUserMutating
        /\ pc \notin {"raised", "crashed"}
        /\ BecomeUserEnded => bu_result = "ok"

\* C12 witness: unprivileged, a become_user call has returned True and
\* restore_id has run after it
C12_Witness ==
    /\ ~config.switch_uid
    /\ pc = "idle"
    /\ restored
    /\ bu_result = "ok"
    /\ cred = ServiceCred
    /\ env.USER = "tsi"

KnownNonRoot(u) == get_uid_4user(u) > 0

\* the first requested group is a group name gid_for_group does not know
UnknownPrimaryRequested ==
    /\ groups # <<>>
    /\ groups[1] \notin {"NONE", "DEFAULT_GID"}
    /\ get_gid_4group(groups[1]) = -1

FallbackCase ==
    /\ config.enforce_os_gids
    /\ ~config.fail_on_invalid_gids
    /\ KnownNonRoot(user)
    /\ UnknownPrimaryRequested
    /\ BecomeUserEnded

\* C13 as stated: with enforce_os_gids and without fail_on_invalid_gids, for a
\* known non-root user, a become_user call with an unknown primary group
\* succeeds with real and effective GID equal to the user's OS default gid.
C13_FallbackAnyProcess ==
    FallbackCase =>
        /\ bu_result = "ok"
        /\ cred.rgid = get_gid_4user(user)
        /\ cred.egid = get_gid_4user(user)

\* C13 amended: that is so for a process whose stored effective UID is 0; an
\* unprivileged process with switch_uid true has its first identity call
\* refused and become_user raises with the credentials unchanged, and with
\* switch_uid false become_user succeeds without changing the GID.
C13_Fallback ==
    FallbackCase =>
        IF config.effective_uid = 0
        THEN /\ bu_result = "ok"
             /\ cred.rgid = get_gid_4user(user)
             /\ cred.egid = get_gid_4user(user)
             /\ get_gid_4user(user) \in cred.groups
        ELSE /\ cred = bu_entry.cred
             /\ bu_result = (IF config.switch_uid THEN "raised" ELSE "ok")

\* C13 witness: root switched to alice, who asked for the unknown group nogrp
\* as primary and devs as supplementary
C13_Witness ==
    /\ BecomeUserSucceeded
    /\ config.effective_uid = 0
    /\ config.enforce_os_gids
    /\ ~config.fail_on_invalid_gids
    /\ user = "alice"
    /\ groups = <<"nogrp", "devs">>
    /\ cred.rgid = 100
    /\ cred.egid = 100
    /\ cred.groups = {100, 500}

CountDefault(gs) == Cardinality({i \in 1..Len(gs) : gs[i] = "DEFAULT_GID"})

\* gs with only the keep-th of its DEFAULT_GID entries left in
RECURSIVE KeepOneDefault(_, _)
KeepOneDefault(gs, keep) ==
    IF gs = <<>> THEN <<>>
    ELSE IF Head(gs) # "DEFAULT_GID" THEN <<Head(gs)>> \o KeepOneDefault(Tail(gs), keep)
    ELSE IF keep = 1 THEN <<Head(gs)>> \o KeepOneDefault(Tail(gs), 0)
    ELSE KeepOneDefault(Tail(gs), keep - 1)

\* the primaries get_supplementary_groups can be handed
PrimaryGids == {get_gid_4group(g) : g \in GroupNames} \cup {get_gid_4user(u) : u \in Users}

SameGidSet(a, b) ==
    /\ a.raised = b.raised
    /\ a.exc = b.exc
    /\ ToSet(a.val) = ToSet(b.val)

\* C14: for every user, primary and requested-groups list holding DEFAULT_GID,
\* get_supplementary_groups gives the list the same gid set (or the same
\* error) as the list with just one of its DEFAULT_GID entries; and the gids
\* become_user resolved for the list are that set.
C14_DefaultGidIdempotent ==
    CountDefault(groups) >= 1 =>
        /\ \A p \in PrimaryGids, keep \in 1..CountDefault(groups) :
              SameGidSet(get_supplementary_groups(groups, p, user, config),
                         get_supplementary_groups(KeepOneDefault(groups, keep), p, user, config))
        /\ (pc = "bu_setgid" /\ groups[1] # "NONE") =>
              ToSet(new_gids) =
                  ToSet(get_supplementary_groups(KeepOneDefault(groups, 1), new_gid, user, config).val)

\* C14 witness: become_user resolved a list with a group between two
\* DEFAULT_GID entries
C14_Witness ==
    /\ pc = "bu_setgid"
    /\ user = "alice"
    /\ groups = <<"DEFAULT_GID", "devs", "DEFAULT_GID">>
    /\ new_gid = 100
    /\ ToSet(new_gids) = {100, 500}

\* the real and effective UID and GID are the stored ones
AtStoredIdentity ==
    /\ cred.ruid = config.effective_uid
    /\ cred.euid = config.effective_uid
    /\ cred.rgid = config.effective_gid
    /\ cred.egid = config.effective_gid

NamedIn(o, text, arg) ==
    \E i \in 1..Len(o) : o[i].kind = "failed" /\ o[i].text = text /\ o[i].arg = arg

\* handle_function is working on an identity line whose user does not resolve
UnknownUserRequest ==
    /\ InHandleFunction
    /\ user # ""
    /\ get_uid_4user(user) = -1

\* C15 (privileged worker, stored effective UID 0): when the identity line
\* names a user that does not resolve, the handler is not invoked, no
\* identity-mutating call of become_user is reached and the real and effective
\* UID and GID stay the stored ones throughout; past the except clause the
\* response holds a failure, the one of become_user naming that user; the
\* worker does not die while the peer is connected, and the request ends with
\* one ENDOFMESSAGE, after which the loop is back at the read.
C15_UnknownUserNotFatal ==
    config.effective_uid = 0 =>
        /\ UnknownUserRequest =>
              /\ AtStoredIdentity
              /\ ~BecomeUserMutating
              /\ pc # "hf_call"
              /\ ~invoked
              /\ bu_result # "ok"
              /\ pc \in {"hf_reset", "hf_exit"} =>
                    /\ \E i \in 1..Len(out) : out[i].kind = "failed"
                    /\ bu_result = "raised" => NamedIn(out, "unknown user", user)
        /\ Reported(out, "unknown user") =>
              /\ AtStoredIdentity
              /\ ~invoked
              /\ ~DiedWhileConnected
              /\ pc = "read" =>
                    /\ EndOfMessages(out) = 1
                    /\ out[Len(out)].text = "ENDOFMESSAGE"

\* C15 witness: a request for the unknown user ghost has been answered with
\* the failure and ENDOFMESSAGE, and the worker is back at the read as root
C15_Witness ==
    /\ pc = "read"
    /\ config.effective_uid = 0
    /\ NamedIn(out, "unknown user", "ghost")
    /\ out[Len(out)].text = "ENDOFMESSAGE"
    /\ restored
    /\ cred.euid = 0
    /\ cred.egid = 0

\* the UID, GID and supplementary groups are back at the stored values
BackAtStored ==
    /\ AtStoredIdentity
    /\ cred.suid = config.effective_uid
    /\ cred.groups = {config.effective_gid}

\* restore_id has run in the worker and a step of it raised, or it left the
\* UID, GID or supplementary groups off the stored values
RestoreFailed ==
    /\ restored
    /\ proc = "worker"
    /\ child_exit = "none"
    /\ ~InHandleFunction
    /\ exc.type = "PermissionError" \/ ~BackAtStored

\* C16: if a step of restore_id raised, or after restore_id the UID, GID or
\* supplementary groups are not the stored ones, the worker is dead: it is not
\* back in the message loop, and a dead worker takes no further step.
C16_RestoreFailureFatal ==
    /\ [](RestoreFailed => pc = "crashed")
    /\ [][pc = "crashed" => pc' = "crashed"]_vars

\* C16 witness: the setgroups call of restore_id was refused and the worker
\* has died of it with the peer connected
C16_Witness ==
    /\ pc = "crashed"
    /\ restored
    /\ exc = PermissionError("setgroups")
    /\ peerUp
    /\ proc = "worker"

\* become_user has returned True for this request and restore_id has not run
Impersonating ==
    /\ config.switch_uid
    /\ bu_result = "ok"
    /\ ~restored
    /\ pc \in {"bu_returned", "hf_call", "raised", "hf_reset"}

ImpersonatedEnv ==
    Impersonating =>
        /\ env = UserEnv(user)
        /\ env.USER = user
        /\ env.HOME = get_home_4user(user)
        /\ cred.euid = get_uid_4user(user)

\* C17 as stated: while impersonating, HOME, USER and LOGNAME are the user's;
\* in the privileged state while serving they are /tmp, nobody, nobody: so
\* they are in a privileged worker that has finished a request and is about
\* to read the next.
C17_EnvWindows ==
    /\ ImpersonatedEnv
    /\ (config.switch_uid /\ config.effective_uid = 0 /\ RequestFinished) => env = SafeEnv

\* C17 amended: while impersonating they are the user's; once restore_id has
\* completed in a process they are /tmp, nobody, nobody in it; between
\* requests they are either that, with the credentials at the stored values,
\* or, as long as no restore_id has completed in the worker, still the ones
\* the process was started with.
C17_EnvAfterRestore ==
    /\ ImpersonatedEnv
    /\ (config.switch_uid /\ restored /\ child_exit = "none" /\ pc # "crashed") =>
          env = SafeEnv
    /\ pc = "read" =>
          \/ env = SafeEnv /\ BackAtStored
          \/ env = launched.env /\ cred = launched.cred

\* C17 witness: a request whose handler ran as a user is finished and the
\* worker is back at the read with the harmless environment
C17_Witness ==
    /\ pc = "read"
    /\ invoked
    /\ bu_result = "ok"
    /\ RestoredInWorker
    /\ config.switch_uid
    /\ env = SafeEnv
    /\ launched.env.USER = "root"

\* the value reads as true: case-insensitively '1' or 'true'
ReadsTrue(value) == Lower(value) \in {"1", "true"}

\* C18: a configuration line 'key = value' for one of the boolean keys
\* (switch_uid, enforce_os_gids, fail_on_invalid_gids, use_id_to_resolve_gids,
\* open_user_sessions, use_syslog, debug) leaves a setting that is true exactly
\* when the value is case-insensitively '1' or 'true'; and an unprivileged
\* process whose file says 'switch_uid = false' has identity switching
\* disabled after initialize.
C18_BooleanKeys ==
    /\ config_line # NoLine =>
          PyTruthy(file_config[config_line.key]) = ReadsTrue(config_line.value)
    /\ (pc = "process" /\ launched.cred.euid # 0
          /\ file_config["tsi.switch_uid"] = PyStr("false")) => ~config.switch_uid

\* C19 (worker started as root, peer connected): on the fork path the child
\* never runs a loop iteration of its own and ends through os._exit on every
\* path; the parent only waits: it is never inside the switch or the handler
\* call of such a request, and when it resumes its credentials and environment
\* are what they were when the message was read.
C19_ForkChildExits ==
    config.effective_uid = 0 =>
        /\ proc = "child" =>
              /\ do_fork(config, command)
              /\ parent.present
              /\ pc \notin {"read", "dispatch", "eom", "closed"}
        /\ (proc = "worker" /\ do_fork(config, command) /\ InHandleFunction) => pc = "hf_fork"
        /\ (proc = "worker" /\ child_exit # "none") =>
              /\ cred = before.cred
              /\ env = before.env
              /\ peerUp => child_exit = "_exit"

WrittenBy(o, text, who) == \A i \in 1..Len(o) : o[i].text = text => o[i].by = who

\* C20 as stated: on the fork path ENDOFMESSAGE is written exactly once for
\* the request, by the child, and never by the parent (here for a child that
\* has left through os._exit).
C20_ChildWritesTerminator ==
    (RequestFinished /\ child_exit = "_exit") =>
        /\ EndOfMessages(out) = 1
        /\ WrittenBy(out, "ENDOFMESSAGE", "child")

\* C20 amended: on the fork path the child never writes ENDOFMESSAGE; the
\* parent writes it, exactly once and last, after its waitpid has returned.
C20_ParentWritesTerminator ==
    /\ proc = "child" => EndOfMessages(out) = 0
    /\ child_exit # "none" => WrittenBy(out, "ENDOFMESSAGE", "worker")
    /\ (RequestFinished /\ child_exit # "none") =>
          /\ EndOfMessages(out) = 1
          /\ out[Len(out)].text = "ENDOFMESSAGE"

\* C20 witness: a forked request is finished: the child wrote the handler's
\* output and left through os._exit, the parent wrote ENDOFMESSAGE after it
C20_Witness ==
    /\ RequestFinished
    /\ child_exit = "_exit"
    /\ command = "TSI_EXECUTESCRIPT"
    /\ Len(out) = 2
    /\ out[1].kind = "ok"
    /\ out[1].by = "child"
    /\ out[2].text = "ENDOFMESSAGE"
    /\ out[2].by = "worker"

SameUids(c, d) == c.ruid = d.ruid /\ c.euid = d.euid /\ c.suid = d.suid

\* the uid, the primary gid and the supplementary gids of become_user are the
\* resolved ones
ResolutionComplete ==
    LET r == become_user_resolve(user, groups, config) IN
    /\ r.outcome = "switch"
    /\ new_uid = get_uid_4user(user)
    /\ new_uid > 0
    /\ new_gid = r.new_gid
    /\ new_gids = r.new_gids

\* what each point of the switch sequence has behind it
SwitchSequenceState ==
    /\ BecomeUserMutating => ResolutionComplete /\ env = bu_entry.env
    /\ pc = "bu_setgid" => cred = bu_entry.cred
    /\ pc = "bu_setgroups" =>
          /\ cred.rgid = new_gid /\ cred.egid = new_gid
          /\ cred.groups = bu_entry.cred.groups
          /\ SameUids(cred, bu_entry.cred)
    /\ pc = "bu_setegid" =>
          /\ cred.rgid = new_gid
          /\ cred.groups = ToSet(new_gids)
          /\ SameUids(cred, bu_entry.cred)
    /\ pc = "bu_setresuid" =>
          /\ cred.rgid = new_gid /\ cred.egid = new_gid
          /\ cred.groups = ToSet(new_gids)
          /\ SameUids(cred, bu_entry.cred)
    /\ pc = "bu_verify" =>
          /\ cred.rgid = new_gid /\ cred.egid = new_gid
          /\ cred.groups = ToSet(new_gids)
          /\ cred.ruid = new_uid /\ cred.euid = new_uid
          /\ cred.suid = config.effective_uid
    /\ Impersonating =>
          /\ cred.suid = config.effective_uid
          /\ cred.ruid = new_uid /\ cred.euid = new_uid
    /\ (InHandleFunction /\ env # bu_entry.env /\ ~restored /\ user # "") =>
          /\ bu_result = "ok"
          /\ env = UserEnv(user)

\* the identity-mutating calls follow one another in the order setgid,
\* setgroups, setegid, setresuid, verification; each may only raise instead
SwitchSequenceStep ==
    /\ pc = "bu_start" => pc' \in {"bu_setgid", "bu_returned", "raised"}
    /\ pc = "bu_setgid" => pc' \in {"bu_setgroups", "raised"}
    /\ pc = "bu_setgroups" => pc' \in {"bu_setegid", "raised"}
    /\ pc = "bu_setegid" => pc' \in {"bu_setresuid", "raised"}
    /\ pc = "bu_setresuid" => pc' \in {"bu_verify", "raised"}
    /\ pc = "bu_verify" => pc' \in {"bu_returned", "raised"}
    /\ (pc = "bu_verify" /\ pc' = "raised") => env' = env
    /\ env' # env => pc \in {"bu_verify", "hf_reset", "hf_exit", "raised"}

\* C21: in become_user the uid, the primary gid and the supplementary gids are
\* resolved before the first identity-mutating call; the calls come in the
\* order set GID, install supplementary groups, set effective GID, and only
\* then the UID change, which keeps the saved UID at the stored effective UID
\* for the whole impersonated window; HOME, USER and LOGNAME are set only
\* after the uid, gid and group verification has passed.
C21_SwitchSequence ==
    /\ []SwitchSequenceState
    /\ [][SwitchSequenceStep]_vars

\* C21 witness: root has made all four calls for alice and is about to verify:
\* the saved UID is still 0 and the environment still root's
C21_Witness ==
    /\ pc = "bu_verify"
    /\ config.effective_uid = 0
    /\ user = "alice"
    /\ groups = <<"users", "devs">>
    /\ cred.ruid = 1001
    /\ cred.euid = 1001
    /\ cred.suid = 0
    /\ cred.egid = 100
    /\ cred.groups = {100, 500}
    /\ env.USER = "root"

====
